---- MODULE Spec2Model ----
(***************************************************************************)
(* The Rust + DuckDB batch pipeline of rust-pipeline/src/main.rs:          *)
(* PipelineMetrics (update_memory, print_summary), run_pipeline (Load,     *)
(* Clean, Transform, Aggregate, Persist) and main.                         *)
(*                                                                         *)
(* Spec        the whole program, one action per statement of run_pipeline *)
(*             and main, the engine, the file system and the process       *)
(*             table answering nondeterministically.                       *)
(* SpecData    the four SQL views as functions of the input rows.          *)
(* SpecMetrics PipelineMetrics::update_memory applied to any sequence of   *)
(*             readings.                                                   *)
(***************************************************************************)
EXTENDS Integers, Sequences, FiniteSets, TLC

\* ------------------------------------------------------------- bounds
\* rows in the matched CSV files, for the views (SpecData)
MaxRows == 2
\* rows in the matched CSV files, for the whole program (Spec)
PipeRows == 1
\* largest quantity in an input row
MaxQty == 1
\* largest price in an input row
MaxPrice == 2
\* largest memory reading, in MB
MaxMem == 1
\* update_memory calls in SpecMetrics
MaxSamples == 6

\* ------------------------------------------------------------- values
NULL == "NULL"
\* TRY_CAST's NULL, where a date <<year, month, day>> is expected
NullDate == <<>>

ProductIds == {"A", "B"}

\* The text of a date column: <<year, month, day>> as written in the file.
\* 2023-02-30 has a month and a day in range and is no calendar date.
DateInputs == {<<2024, 7, 15>>, <<2023, 2, 30>>}

\* A line of a CSV file that read_csv_auto cannot parse.
MalformedRow ==
    [product_id |-> NULL, quantity |-> 0, price |-> 0,
     date |-> <<0, 0, 0>>, wellformed |-> FALSE]

CsvRows ==
    [product_id : ProductIds \cup {NULL}, quantity : 0..MaxQty,
     price : 0..MaxPrice, date : DateInputs, wellformed : {TRUE}]
    \cup {MalformedRow}

SeqsUpTo(S, n) == UNION {[1..k -> S] : k \in 0..n}

\* ------------------------------------------------------------ helpers
RECURSIVE Gcd(_, _)
Gcd(a, b) == IF b = 0 THEN a ELSE Gcd(b, a % b)

RECURSIVE SumSeq(_)
SumSeq(s) == IF s = <<>> THEN 0 ELSE Head(s) + SumSeq(Tail(s))

Last(s) == s[Len(s)]

\* ------------------------------------------------------ f64 arithmetic
\* A finite f64 is the exact rational [num, den] with den > 0. The IEEE
\* results of a division by zero have den = 0: NaN (0/0) and the infinities.
F64(n) == [num |-> n, den |-> 1]
NaN == [num |-> 0, den |-> 0]
PosInf == [num |-> 1, den |-> 0]
NegInf == [num |-> -1, den |-> 0]

IsFinite(a) == a.den > 0

\* a / b on two finite f64
F64Div(a, b) ==
    IF b.num = 0
    THEN IF a.num = 0 THEN NaN ELSE IF a.num > 0 THEN PosInf ELSE NegInf
    ELSE IF b.num > 0
         THEN [num |-> a.num * b.den, den |-> a.den * b.num]
         ELSE [num |-> -(a.num * b.den), den |-> -(a.den * b.num)]

\* a * k, k a positive whole number
F64Mul(a, k) == IF IsFinite(a) THEN [num |-> a.num * k, den |-> a.den] ELSE a

\* ---------------------------------------------------------- SQL: dates
IsLeap(y) == (y % 4 = 0 /\ y % 100 # 0) \/ y % 400 = 0

DaysInMonth(y, m) ==
    IF m = 2 THEN (IF IsLeap(y) THEN 29 ELSE 28)
    ELSE IF m \in {4, 6, 9, 11} THEN 30 ELSE 31

\* TRY_CAST(date AS DATE): the date, or NULL when the text is no date.
TryCastDate(d) ==
    IF /\ d[2] \in 1..12
       /\ d[1] >= 1
       /\ d[3] >= 1
       /\ d[3] <= DaysInMonth(d[1], d[2])
    THEN d
    ELSE NullDate

ExtractYear(d) == d[1]
ExtractMonth(d) == d[2]
\* the quarter counted from the month without the - 1
ExtractQuarterBad(d) == (d[2] \div 3) + 1

ExtractQuarter(d) == ((d[2] - 1) \div 3) + 1

\* ---------------------------------------------------------- SQL: views
\* raw_data: read_csv_auto(pattern, ignore_errors=true) keeps the lines it
\* can parse, in file order.
RawData(rows) == SelectSeq(rows, LAMBDA r : r.wellformed)

\* the WHERE clause with price >= 0 written for price > 0
CleanPredicateBad(r) ==
    /\ r.product_id # NULL
    /\ r.quantity > 0
    /\ r.price >= 0
    /\ TryCastDate(r.date) # NullDate

\* cleaned_data: the WHERE clause.
CleanPredicate(r) ==
    /\ r.product_id # NULL
    /\ r.quantity > 0
    /\ r.price > 0
    /\ TryCastDate(r.date) # NullDate

CleanedData(raw) == SelectSeq(raw, CleanPredicate)

\* a select list that puts revenue in the place of quantity
TransformRowBad(r) ==
    [product_id |-> r.product_id, quantity |-> r.quantity * r.price,
     price |-> r.price,
     date |-> r.date, wellformed |-> r.wellformed,
     revenue |-> r.quantity * r.price,
     year |-> ExtractYear(TryCastDate(r.date)),
     month |-> ExtractMonth(TryCastDate(r.date)),
     quarter |-> ExtractQuarter(TryCastDate(r.date))]

\* transformed_data: SELECT *, and the four derived columns.
TransformRow(r) ==
    [product_id |-> r.product_id, quantity |-> r.quantity, price |-> r.price,
     date |-> r.date, wellformed |-> r.wellformed,
     revenue |-> r.quantity * r.price,
     year |-> ExtractYear(TryCastDate(r.date)),
     month |-> ExtractMonth(TryCastDate(r.date)),
     quarter |-> ExtractQuarter(TryCastDate(r.date))]

TransformedData(cleaned) == [i \in 1..Len(cleaned) |-> TransformRow(cleaned[i])]

\* AVG(price): the mean, an exact rational in lowest terms.
Avg(sum, n) ==
    LET g == Gcd(sum, n) IN [num |-> sum \div g, den |-> n \div g]

\* The hash aggregate: one accumulator per key, fed row by row.
EmptyAcc == [k \in {} |-> 0]

\* an accumulator that does not count the rows after the first of a key
AccumulateBad(acc, r) ==
    LET k == r.product_id IN
    IF k \in DOMAIN acc
    THEN [acc EXCEPT ![k] = [sum_quantity |-> @.sum_quantity + r.quantity,
                             sum_revenue |-> @.sum_revenue + r.revenue,
                             sum_price |-> @.sum_price + r.price,
                             count |-> @.count]]
    ELSE [x \in DOMAIN acc \cup {k} |->
            IF x = k
            THEN [sum_quantity |-> r.quantity, sum_revenue |-> r.revenue,
                  sum_price |-> r.price, count |-> 1]
            ELSE acc[x]]

Accumulate(acc, r) ==
    LET k == r.product_id IN
    IF k \in DOMAIN acc
    THEN [acc EXCEPT ![k] = [sum_quantity |-> @.sum_quantity + r.quantity,
                             sum_revenue |-> @.sum_revenue + r.revenue,
                             sum_price |-> @.sum_price + r.price,
                             count |-> @.count + 1]]
    ELSE [x \in DOMAIN acc \cup {k} |->
            IF x = k
            THEN [sum_quantity |-> r.quantity, sum_revenue |-> r.revenue,
                  sum_price |-> r.price, count |-> 1]
            ELSE acc[x]]

RECURSIVE GroupBy(_, _)
GroupBy(acc, rows) ==
    IF rows = <<>> THEN acc ELSE GroupBy(Accumulate(acc, Head(rows)), Tail(rows))

\* SELECT product_id, SUM(quantity), SUM(revenue), AVG(price) ... GROUP BY
Groups(transformed) ==
    LET acc == GroupBy(EmptyAcc, transformed) IN
    {[product_id |-> k,
      total_quantity |-> acc[k].sum_quantity,
      total_revenue |-> acc[k].sum_revenue,
      avg_price |-> Avg(acc[k].sum_price, acc[k].count)] : k \in DOMAIN acc}

\* ORDER BY total_revenue ASC
OrderedByBad(s) ==
    \A i \in 1..Len(s), j \in 1..Len(s) :
        i < j => s[i].total_revenue <= s[j].total_revenue

\* ORDER BY total_revenue DESC
OrderedBy(s) ==
    \A i \in 1..Len(s), j \in 1..Len(s) :
        i < j => s[i].total_revenue >= s[j].total_revenue

\* aggregated_data: every result the engine may return; the order of groups
\* of equal total_revenue is the engine's choice.
AggregatedData(transformed) ==
    LET G == Groups(transformed) IN
    {s \in [1..Cardinality(G) -> G] :
        /\ \A g \in G : \E i \in 1..Cardinality(G) : s[i] = g
        /\ OrderedBy(s)}

\* transformed_data over the rows of the matched files.
Transformed(rows) == TransformedData(CleanedData(RawData(rows)))

\* COPY aggregated_data TO '...' (HEADER, DELIMITER ','): the header line.
CsvHeader == <<"product_id", "total_quantity", "total_revenue", "avg_price">>

\* -------------------------------------------------------------- state
VARIABLES
    pc,               \* the statement the program is at
    data_dir,         \* the input directory: [state, rows]
    out_dir,          \* whether the parent directory of output_path exists
    out_file,         \* the file at output_path: [state, header, rows]
    out_before,       \* out_dir and out_file as they were when the program started
    first_output,     \* SpecTwice: the file at output_path after the first of two runs
    conn,             \* the DuckDB connection: "none", "open", "closed"
    catalog,          \* the views of the connection
    peak_memory_mb,   \* PipelineMetrics.peak_memory_mb
    row_count, cleaned_count, removed, removed_pct, agg_count,
    err,              \* the anyhow error returned by run_pipeline: its chain, outermost first
    stdout, stderr,   \* what was printed
    exit_status,      \* <<>> while the process runs, then <<code>>
    log,              \* every step taken: [stage, step, ok]
    raw_data, cleaned_data, transformed_data, aggregated_data,  \* SpecData: the views' rows
    observed,         \* SpecMetrics: the reading of each update_memory call so far
    peaks             \* SpecMetrics: peak_memory_mb after each of these calls

fsVars == <<out_dir, out_file>>
localVars == <<row_count, cleaned_count, removed, removed_pct, agg_count>>
ioVars == <<stdout, stderr>>
dataVars == <<raw_data, cleaned_data, transformed_data, aggregated_data>>
metricsGhost == <<observed, peaks>>
vars == <<pc, data_dir, out_dir, out_file, out_before, first_output, conn, catalog, peak_memory_mb,
          row_count, cleaned_count, removed, removed_pct, agg_count, err, stdout,
          stderr, exit_status, log, raw_data, cleaned_data, transformed_data,
          aggregated_data, observed, peaks>>

NoFile == [state |-> "absent", header |-> <<>>, rows |-> <<>>]
OldFile == [state |-> "old", header |-> <<"stale">>, rows |-> <<>>]
PartialFile == [state |-> "partial", header |-> CsvHeader, rows |-> <<>>]
WrittenFile(agg) == [state |-> "written", header |-> CsvHeader, rows |-> agg]

\* The input directory: missing, holding no *.csv file, or holding files
\* whose lines together are rows.
InputDirs(R, n) ==
    {[state |-> "missing", rows |-> <<>>], [state |-> "nofiles", rows |-> <<>>]}
    \cup {[state |-> "files", rows |-> r] : r \in SeqsUpTo(R, n)}

\* The rows Spec runs the program over: those of quantity and price 0 or 1.
\* SpecData evaluates the views over all of CsvRows.
PipeCsvRows == {r \in CsvRows : r.quantity <= 1 /\ r.price <= 1}

\* The output location: the parent directory and the file in it.
OutputStates ==
    {[dir |-> FALSE, file |-> NoFile], [dir |-> TRUE, file |-> NoFile],
     [dir |-> TRUE, file |-> OldFile]}

InitCommon ==
    /\ first_output = NoFile
    /\ conn = "none"
    /\ catalog = {}
    /\ peak_memory_mb = 0
    /\ row_count = 0 /\ cleaned_count = 0 /\ removed = 0
    /\ removed_pct = F64(0) /\ agg_count = 0
    /\ err = <<>>
    /\ stdout = <<>> /\ stderr = <<>>
    /\ exit_status = <<>>
    /\ log = <<>>
    /\ raw_data = <<>> /\ cleaned_data = <<>>
    /\ transformed_data = <<>> /\ aggregated_data = <<>>
    /\ observed = <<>> /\ peaks = <<>>

Init ==
    /\ pc = "main"
    /\ data_dir \in InputDirs(PipeCsvRows, PipeRows)
    /\ out_before \in OutputStates
    /\ out_dir = out_before.dir
    /\ out_file = out_before.file
    /\ InitCommon

Step(stage, step, ok) == [stage |-> stage, step |-> step, ok |-> ok]

\* --------------------------------------------------- the ? operator
\* result is <<>> for Ok and <<cause>> for Err; context is <<>> or the
\* <<message>> of .context(). On Err run_pipeline returns at once: its
\* locals are dropped (the connection closes) and main gets the error.

\* a statement whose result is dropped instead of propagated with ?
PropagateIgnoringErr(result, context, next) ==
    /\ pc' = next
    /\ err' = err

\* a statement that is run again when it fails
PropagateRetry(result, context, next) ==
    /\ pc' = IF result = <<>> THEN next ELSE pc
    /\ err' = err

\* result?  and  result.context(context)?
Propagate(result, context, next) ==
    IF result = <<>>
    THEN /\ pc' = next
         /\ err' = err
    ELSE /\ pc' = "main_err"
         /\ err' = context \o result

\* an early return that leaves the connection open
TryLeaking(result, context, next) ==
    /\ Propagate(result, context, next)
    /\ conn' = conn

\* A fallible statement of run_pipeline after the connection is open.
Try(result, context, next) ==
    /\ Propagate(result, context, next)
    /\ conn' = IF pc' = "main_err" THEN "closed" ELSE conn

EngineResults == {<<>>, <<"duckdb error">>}
IoResults == {<<>>, <<"io error">>}

\* --------------------------------------------------- PipelineMetrics
\* What the process table answers: the pid cannot be told, the pid has no
\* entry, or the resident memory of the process.
Readings ==
    {[kind |-> "pid_err", mb |-> 0], [kind |-> "no_process", mb |-> 0]}
    \cup {[kind |-> "memory", mb |-> m] : m \in 0..MaxMem}

\* a collector that keeps the last reading instead of the maximum
PeakAfterLastReading(peak, mb) == mb

\* if memory_mb > self.peak_memory_mb { self.peak_memory_mb = memory_mb; }
PeakAfter(peak, mb) == IF mb > peak THEN mb ELSE peak

\* update_memory, then the statement next. get_current_pid().unwrap()
\* panics on Err: the stack unwinds (the connection closes) and the process
\* ends with the status of a Rust panic, 101.
update_memory(reading, next) ==
    IF reading.kind = "pid_err"
    THEN /\ pc' = "exited"
         /\ exit_status' = <<101>>
         /\ stderr' = Append(stderr, "thread 'main' panicked")
         /\ conn' = IF conn = "open" THEN "closed" ELSE conn
         /\ peak_memory_mb' = peak_memory_mb
    ELSE /\ pc' = next
         /\ peak_memory_mb' =
                IF reading.kind = "memory"
                THEN PeakAfter(peak_memory_mb, reading.mb)
                ELSE peak_memory_mb
         /\ UNCHANGED <<exit_status, stderr, conn>>

\* metrics.update_memory() at statement at of run_pipeline
Sample(at, next) ==
    /\ pc = at
    /\ \E reading \in Readings :
        /\ update_memory(reading, next)
        /\ log' = Append(log, Step("Metrics", "sample", reading.kind # "pid_err"))
    /\ UNCHANGED <<data_dir, fsVars, out_before, first_output, catalog, localVars, err, stdout,
                   dataVars, metricsGhost>>

\* ------------------------------------------------------ run_pipeline
\* main resolves the arguments and calls run_pipeline, which builds the
\* metrics and prints the banner.
Start ==
    /\ pc = "main"
    /\ pc' = "open"
    /\ peak_memory_mb' = 0
    /\ stdout' = Append(stdout, "Starting Rust + DuckDB Pipeline")
    /\ UNCHANGED <<data_dir, fsVars, out_before, first_output, conn, catalog, localVars, err,
                   stderr, exit_status, log, dataVars, metricsGhost>>

\* Connection::open_in_memory().context(..)?
Open ==
    /\ pc = "open"
    /\ \E res \in EngineResults :
        /\ Propagate(res, <<"Failed to create DuckDB connection">>, "mem0")
        /\ conn' = IF res = <<>> THEN "open" ELSE conn
        /\ log' = Append(log, Step("Init", "open", res = <<>>))
    /\ UNCHANGED <<data_dir, fsVars, out_before, first_output, catalog, peak_memory_mb, localVars,
                   ioVars, exit_status, dataVars, metricsGhost>>

Sample0 == Sample("mem0", "load_view")

\* What the engine may answer to a statement that reads the views in needs:
\* an error when one of them is not in the catalog.
EngineAnswers(needs) ==
    IF needs \subseteq catalog THEN EngineResults ELSE {<<"duckdb error">>}

\* a load that does not fail when no file matches the pattern
LoadAnswersAnyDir(dir) == EngineResults

\* read_csv_auto over the pattern data_dir/*.csv: an error when no file
\* matches it.
LoadAnswers(dir) ==
    IF dir.state = "files" THEN EngineResults ELSE {<<"duckdb error">>}

\* conn.execute("CREATE VIEW <view> AS ...").context(..)?
CreateView(at, stage, view, answers, context, next) ==
    /\ pc = at
    /\ \E res \in answers :
        /\ Try(res, <<context>>, next)
        /\ catalog' = IF res = <<>> THEN catalog \cup {view} ELSE catalog
        /\ log' = Append(log, Step(stage, "view", res = <<>>))
    /\ UNCHANGED <<data_dir, fsVars, out_before, first_output, peak_memory_mb, localVars, ioVars,
                   exit_status, dataVars, metricsGhost>>

LoadView ==
    CreateView("load_view", "Load", "raw_data", LoadAnswers(data_dir),
               "Failed to load CSV files", "mem1")

Sample1 == Sample("mem1", "raw_count")

\* let row_count: i64 = conn.query_row("SELECT COUNT(*) FROM raw_data", ..)?
RawCount ==
    /\ pc = "raw_count"
    /\ \E res \in EngineAnswers({"raw_data"}) :
        /\ Try(res, <<>>, "clean_view")
        /\ row_count' = IF res = <<>> THEN Len(RawData(data_dir.rows)) ELSE row_count
        /\ stdout' = IF res = <<>> THEN Append(stdout, "Total rows loaded") ELSE stdout
        /\ log' = Append(log, Step("Load", "count", res = <<>>))
    /\ UNCHANGED <<data_dir, fsVars, out_before, first_output, catalog, peak_memory_mb,
                   cleaned_count, removed, removed_pct, agg_count, stderr,
                   exit_status, dataVars, metricsGhost>>

CleanView ==
    CreateView("clean_view", "Clean", "cleaned_data", EngineAnswers({"raw_data"}),
               "Failed to clean data", "clean_count")

\* let cleaned_count: i64 = conn.query_row("SELECT COUNT(*) FROM cleaned_data", ..)?
CleanCount ==
    /\ pc = "clean_count"
    /\ \E res \in EngineAnswers({"cleaned_data"}) :
        /\ Try(res, <<>>, "clean_stats")
        /\ cleaned_count' =
              IF res = <<>> THEN Len(CleanedData(RawData(data_dir.rows)))
              ELSE cleaned_count
        /\ log' = Append(log, Step("Clean", "count", res = <<>>))
    /\ UNCHANGED <<data_dir, fsVars, out_before, first_output, catalog, peak_memory_mb, row_count,
                   removed, removed_pct, agg_count, ioVars, exit_status, dataVars,
                   metricsGhost>>

\* the subtraction with its operands swapped
RemovedSwapped(total, cleaned) == cleaned - total

\* let removed = row_count - cleaned_count;
Removed(total, cleaned) == total - cleaned

\* (removed as f64 / row_count as f64) * 100.0
RemovedPct(rem, total) == F64Mul(F64Div(F64(rem), F64(total)), 100)

\* let removed = ..; let removed_pct = ..; println!(..)
CleanStats ==
    /\ pc = "clean_stats"
    /\ pc' = "mem2"
    /\ removed' = Removed(row_count, cleaned_count)
    /\ removed_pct' = RemovedPct(removed', row_count)
    /\ stdout' = Append(stdout, "Removed invalid rows")
    /\ log' = Append(log, Step("Clean", "stats", TRUE))
    /\ UNCHANGED <<data_dir, fsVars, out_before, first_output, conn, catalog, peak_memory_mb,
                   row_count, cleaned_count, agg_count, err, stderr, exit_status,
                   dataVars, metricsGhost>>

Sample2 == Sample("mem2", "transform_view")

TransformView ==
    CreateView("transform_view", "Transform", "transformed_data",
               EngineAnswers({"cleaned_data"}), "Failed to transform data", "mem3")

Sample3 == Sample("mem3", "agg_view")

AggregateView ==
    CreateView("agg_view", "Aggregate", "aggregated_data",
               EngineAnswers({"transformed_data"}), "Failed to aggregate data",
               "agg_count")

\* let agg_count: i64 = conn.query_row("SELECT COUNT(*) FROM aggregated_data", ..)?
AggCount ==
    /\ pc = "agg_count"
    /\ \E res \in EngineAnswers({"aggregated_data"}) :
        /\ Try(res, <<>>, "mem4")
        /\ agg_count' =
              IF res = <<>> THEN Cardinality(Groups(Transformed(data_dir.rows)))
              ELSE agg_count
        /\ stdout' = IF res = <<>> THEN Append(stdout, "Aggregated to products") ELSE stdout
        /\ log' = Append(log, Step("Aggregate", "count", res = <<>>))
    /\ UNCHANGED <<data_dir, fsVars, out_before, first_output, catalog, peak_memory_mb, row_count,
                   cleaned_count, removed, removed_pct, stderr, exit_status,
                   dataVars, metricsGhost>>

Sample4 == Sample("mem4", "mkdir")

\* std::fs::create_dir_all(parent).context(..)?
CreateDir ==
    /\ pc = "mkdir"
    /\ \E res \in IoResults :
        /\ Try(res, <<"Failed to create output directory">>, "copy")
        /\ out_dir' = IF res = <<>> THEN TRUE ELSE out_dir
        /\ log' = Append(log, Step("Persist", "mkdir", res = <<>>))
    /\ UNCHANGED <<data_dir, out_file, out_before, first_output, catalog, peak_memory_mb, localVars,
                   ioVars, exit_status, dataVars, metricsGhost>>

\* a COPY that leaves a file that is already there as it is
FileAfterCopyKeepingOld(old, agg) ==
    IF old.state = "absent" THEN WrittenFile(agg) ELSE old

\* The file at output_path after a COPY of the rows agg that succeeded: the
\* header and the rows, whatever was there before.
FileAfterCopy(old, agg) == WrittenFile(agg)

\* conn.execute("COPY aggregated_data TO '<output_path>' ..").context(..)?
\* A COPY that fails may have left nothing or a file cut short.
Copy ==
    /\ pc = "copy"
    /\ \E res \in EngineAnswers({"aggregated_data"}) :
        /\ Try(res, <<"Failed to save results">>, "metadata")
        /\ IF res = <<>>
           THEN \E agg \in AggregatedData(Transformed(data_dir.rows)) :
                    out_file' = FileAfterCopy(out_file, agg)
           ELSE out_file' \in {out_file, PartialFile}
        /\ log' = Append(log, Step("Persist", "copy", res = <<>>))
    /\ UNCHANGED <<data_dir, out_dir, out_before, first_output, catalog, peak_memory_mb, localVars,
                   ioVars, exit_status, dataVars, metricsGhost>>

\* let file_size = std::fs::metadata(output_path)?.len() ..; println!(..)
Metadata ==
    /\ pc = "metadata"
    /\ \E res \in IoResults :
        /\ Try(res, <<>>, "mem5")
        /\ stdout' = IF res = <<>> THEN Append(stdout, "Results saved") ELSE stdout
        /\ log' = Append(log, Step("Persist", "size", res = <<>>))
    /\ UNCHANGED <<data_dir, fsVars, out_before, first_output, catalog, peak_memory_mb, localVars,
                   stderr, exit_status, dataVars, metricsGhost>>

Sample5 == Sample("mem5", "summary")

\* a summary printed twice
SummaryTwice ==
    /\ pc = "summary"
    /\ pc' = "main_ok"
    /\ stdout' = stdout \o <<"Pipeline Execution Summary", "Pipeline Execution Summary">>
    /\ conn' = "closed"
    /\ log' = Append(log, Step("Metrics", "summary", TRUE))
    /\ UNCHANGED <<data_dir, fsVars, out_before, first_output, catalog, peak_memory_mb,
                   localVars, err, stderr, exit_status, dataVars, metricsGhost>>

\* metrics.print_summary(); Ok(()): run_pipeline returns, its locals dropped
Summary ==
    /\ pc = "summary"
    /\ pc' = "main_ok"
    /\ stdout' = Append(stdout, "Pipeline Execution Summary")
    /\ conn' = "closed"
    /\ log' = Append(log, Step("Metrics", "summary", TRUE))
    /\ UNCHANGED <<data_dir, fsVars, out_before, first_output, catalog, peak_memory_mb, localVars,
                   err, stderr, exit_status, dataVars, metricsGhost>>

\* ---------------------------------------------------------------- main
\* Ok(_) => { println!(..); std::process::exit(0) }
MainOk ==
    /\ pc = "main_ok"
    /\ pc' = "exited"
    /\ stdout' = Append(stdout, "Pipeline completed successfully")
    /\ exit_status' = <<0>>
    /\ UNCHANGED <<data_dir, fsVars, out_before, first_output, conn, catalog, peak_memory_mb,
                   localVars, err, stderr, log, dataVars, metricsGhost>>

\* Display of an anyhow::Error: the outermost message of the chain.
Display(e) == Head(e)

\* Err(e) => { eprintln!("❌ Pipeline failed: {}", e); std::process::exit(1) }
MainErr ==
    /\ pc = "main_err"
    /\ pc' = "exited"
    /\ stderr' = Append(stderr, Display(err))
    /\ exit_status' = <<1>>
    /\ UNCHANGED <<data_dir, fsVars, out_before, first_output, conn, catalog, peak_memory_mb,
                   localVars, err, stdout, log, dataVars, metricsGhost>>

Next ==
    \/ Start \/ Open \/ Sample0
    \/ LoadView \/ Sample1 \/ RawCount
    \/ CleanView \/ CleanCount \/ CleanStats \/ Sample2
    \/ TransformView \/ Sample3
    \/ AggregateView \/ AggCount \/ Sample4
    \/ CreateDir \/ Copy \/ Metadata \/ Sample5 \/ Summary
    \/ MainOk \/ MainErr

Spec == Init /\ [][Next]_vars

\* ------------------------------------------------------------ SpecData
\* The views evaluated one after the other over the rows of the matched
\* files, as the engine evaluates them for a query.
InitData ==
    /\ pc = "data"
    /\ data_dir \in {d \in InputDirs(CsvRows, MaxRows) : d.state = "files"}
    /\ out_before = [dir |-> FALSE, file |-> NoFile]
    /\ out_dir = out_before.dir
    /\ out_file = out_before.file
    /\ InitCommon

EvalRaw ==
    /\ pc = "data"
    /\ pc' = "data_raw"
    /\ raw_data' = RawData(data_dir.rows)
    /\ UNCHANGED <<data_dir, fsVars, out_before, first_output, conn, catalog, peak_memory_mb,
                   localVars, err, ioVars, exit_status, log, cleaned_data,
                   transformed_data, aggregated_data, metricsGhost>>

EvalCleaned ==
    /\ pc = "data_raw"
    /\ pc' = "data_cleaned"
    /\ cleaned_data' = CleanedData(raw_data)
    /\ UNCHANGED <<data_dir, fsVars, out_before, first_output, conn, catalog, peak_memory_mb,
                   localVars, err, ioVars, exit_status, log, raw_data,
                   transformed_data, aggregated_data, metricsGhost>>

EvalTransformed ==
    /\ pc = "data_cleaned"
    /\ pc' = "data_transformed"
    /\ transformed_data' = TransformedData(cleaned_data)
    /\ UNCHANGED <<data_dir, fsVars, out_before, first_output, conn, catalog, peak_memory_mb,
                   localVars, err, ioVars, exit_status, log, raw_data,
                   cleaned_data, aggregated_data, metricsGhost>>

EvalAggregated ==
    /\ pc = "data_transformed"
    /\ pc' = "data_aggregated"
    /\ \E agg \in AggregatedData(transformed_data) : aggregated_data' = agg
    /\ UNCHANGED <<data_dir, fsVars, out_before, first_output, conn, catalog, peak_memory_mb,
                   localVars, err, ioVars, exit_status, log, raw_data,
                   cleaned_data, transformed_data, metricsGhost>>

NextData == EvalRaw \/ EvalCleaned \/ EvalTransformed \/ EvalAggregated

SpecData == InitData /\ [][NextData]_vars

\* --------------------------------------------------------- SpecMetrics
\* A PipelineMetrics fresh from new(), and update_memory called on it up to
\* MaxSamples times, whatever the process table answers.
InitMetrics ==
    /\ pc = "metrics"
    /\ data_dir = [state |-> "missing", rows |-> <<>>]
    /\ out_before = [dir |-> FALSE, file |-> NoFile]
    /\ out_dir = out_before.dir
    /\ out_file = out_before.file
    /\ InitCommon

MetricsSample ==
    /\ pc = "metrics"
    /\ Len(observed) < MaxSamples
    /\ \E reading \in Readings :
        /\ update_memory(reading, "metrics")
        /\ observed' = Append(observed, reading)
    /\ peaks' = Append(peaks, peak_memory_mb')
    /\ UNCHANGED <<data_dir, fsVars, out_before, first_output, catalog, localVars, err, stdout, log,
                   dataVars>>

NextMetrics == MetricsSample

SpecMetrics == InitMetrics /\ [][NextMetrics]_vars

\* ----------------------------------------------------------- SpecDates
\* The views over one row that passes the other three predicates, its date
\* any text <<year, month, day>> of DateTexts.
Years == {1900, 2000, 2023, 2024}
DateTexts == {<<y, m, d>> : y \in Years, m \in 0..13, d \in 0..32}

InitDates ==
    /\ pc = "data"
    /\ \E q \in 1..MaxQty, p \in 1..MaxPrice, d \in DateTexts :
         data_dir = [state |-> "files",
                     rows |-> <<[product_id |-> "A", quantity |-> q, price |-> p,
                                 date |-> d, wellformed |-> TRUE]>>]
    /\ out_before = [dir |-> FALSE, file |-> NoFile]
    /\ out_dir = out_before.dir
    /\ out_file = out_before.file
    /\ InitCommon

SpecDates == InitDates /\ [][NextData]_vars

\* ----------------------------------------------------------- SpecTwice
\* Two runs of the program that succeed, one after the other, over the same
\* input directory: what each leaves at output_path.
InitTwice ==
    /\ pc = "run1"
    /\ data_dir \in {d \in InputDirs(CsvRows, MaxRows) : d.state = "files"}
    /\ out_before \in OutputStates
    /\ out_dir = out_before.dir
    /\ out_file = out_before.file
    /\ InitCommon

\* create_dir_all, then COPY aggregated_data TO output_path
RunOnce(at, next) ==
    /\ pc = at
    /\ pc' = next
    /\ out_dir' = TRUE
    /\ \E agg \in AggregatedData(Transformed(data_dir.rows)) :
         out_file' = FileAfterCopy(out_file, agg)
    /\ UNCHANGED <<data_dir, out_before, conn, catalog, peak_memory_mb, localVars,
                   err, ioVars, exit_status, log, dataVars, metricsGhost>>

FirstRun == RunOnce("run1", "run2") /\ first_output' = out_file'

SecondRun == RunOnce("run2", "ran_twice") /\ first_output' = first_output

NextTwice == FirstRun \/ SecondRun

SpecTwice == InitTwice /\ [][NextTwice]_vars

\* =============================================================== claims
StageNames == <<"Load", "Clean", "Transform", "Aggregate", "Persist">>

\* The steps of each stage, in the order the stage takes them.
StageSteps(stage) ==
    CASE stage = "Load" -> <<"view", "count">>
      [] stage = "Clean" -> <<"view", "count", "stats">>
      [] stage = "Transform" -> <<"view">>
      [] stage = "Aggregate" -> <<"view", "count">>
      [] stage = "Persist" -> <<"mkdir", "copy", "size">>

Range(s) == {s[i] : i \in DOMAIN s}
IsStageStep(e) == e.stage \in Range(StageNames)
IsSample(e) == e.stage = "Metrics" /\ e.step = "sample"
Count(s, x) == Cardinality({i \in DOMAIN s : s[i] = x})

RECURSIVE Concat(_)
Concat(ss) == IF ss = <<>> THEN <<>> ELSE Head(ss) \o Concat(Tail(ss))

\* The steps of the five stages in program order.
StageRun ==
    Concat([k \in 1..Len(StageNames) |->
              [n \in 1..Len(StageSteps(StageNames[k])) |->
                  Step(StageNames[k], StageSteps(StageNames[k])[n], TRUE)]])

\* C1: the stage steps taken so far are the first steps of Load, Clean,
\* Transform, Aggregate, Persist in this order, and all but the last one
\* succeeded: a stage starts only after every step of every earlier stage
\* succeeded. A failed stage step is the last step of the run (no later
\* stage, no sample), its error is handed to main and the exit status is 1.
C1_ShortCircuit ==
    LET taken == SelectSeq(log, IsStageStep) IN
    /\ Len(taken) <= Len(StageRun)
    /\ \A j \in 1..Len(taken) :
         /\ taken[j].stage = StageRun[j].stage
         /\ taken[j].step = StageRun[j].step
         /\ j < Len(taken) => taken[j].ok
    /\ \A i \in 1..Len(log) :
         (IsStageStep(log[i]) /\ ~log[i].ok) =>
           /\ i = Len(log)
           /\ pc \in {"main_err", "exited"}
           /\ err # <<>>
           /\ exit_status \in {<<>>, <<1>>}
           /\ pc = "exited" => exit_status = <<1>>

\* a run that failed in Aggregate, after Load, Clean and Transform succeeded
C1_Witness ==
    /\ pc = "exited"
    /\ Last(log) = Step("Aggregate", "count", FALSE)

\* C2: a run that ended has status 0 after a pipeline that succeeded, and
\* status 1 otherwise; no other status.
C2_ExitStatus ==
    pc = "exited" =>
        \/ exit_status = <<0>> /\ Last(log) = Step("Metrics", "summary", TRUE)
        \/ exit_status = <<1>> /\ Last(log) # Step("Metrics", "summary", TRUE)

\* C3: with a missing input directory the file at output_path stays as it
\* was before the run, and the run does not end with status 0.
C3_MissingInput ==
    data_dir.state = "missing" =>
        /\ out_file = out_before.file
        /\ pc = "exited" => exit_status # <<0>>

\* a run over a missing directory that ended in Load, an output file of an
\* earlier run in place
C3_Witness ==
    /\ data_dir.state = "missing"
    /\ pc = "exited"
    /\ exit_status = <<1>>
    /\ Last(log) = Step("Load", "view", FALSE)
    /\ out_before.file = OldFile
    /\ out_file = OldFile

\* C4: peak_memory_mb never decreases from one update_memory call to a later
\* one, and after each call it is at least every memory value read at that
\* call and at every earlier one.
C4_HighWaterMark ==
    /\ Len(peaks) = Len(observed)
    /\ peaks # <<>> => Last(peaks) = peak_memory_mb
    /\ \A i \in 1..Len(peaks), j \in 1..Len(peaks) :
         i <= j =>
           /\ peaks[i] <= peaks[j]
           /\ observed[i].kind = "memory" => peaks[j] >= observed[i].mb

\* a later reading lower than an earlier one
C4_Witness ==
    \E i \in 1..Len(observed), j \in 1..Len(observed) :
        /\ i < j
        /\ observed[i].kind = "memory"
        /\ observed[j].kind = "memory"
        /\ observed[j].mb < observed[i].mb
        /\ peaks[j] = observed[i].mb

\* The statements that follow the six update_memory calls of run_pipeline.
AfterSample ==
    {"load_view", "raw_count", "transform_view", "agg_view", "mkdir", "summary"}

\* C5: whatever the process table answers, update_memory returns and the
\* program is at the statement after the call.
C5_CollectorFailSoft ==
    (log # <<>> /\ IsSample(Last(log))) => pc \in AfterSample

\* One sample before Load, then each stage's steps followed by one sample.
SampledRun ==
    <<Step("Metrics", "sample", TRUE)>> \o
    Concat([k \in 1..Len(StageNames) |->
              [n \in 1..Len(StageSteps(StageNames[k])) |->
                  Step(StageNames[k], StageSteps(StageNames[k])[n], TRUE)]
              \o <<Step("Metrics", "sample", TRUE)>>])

\* C6: the samples and stage steps of a successful run are: a sample, then
\* for each stage all of its steps followed by one sample (6 samples).
C6_SampleAfterEachStage ==
    exit_status = <<0>> =>
        SelectSeq(log, LAMBDA e : IsStageStep(e) \/ IsSample(e)) = SampledRun

StatsDone == \E i \in 1..Len(log) : log[i] = Step("Clean", "stats", TRUE)

\* C7: when Load counted no rows, Clean reports removed = 0 and
\* removed_pct = 0.
C7_ZeroRowsGuarded ==
    (StatsDone /\ row_count = 0) => (removed = 0 /\ removed_pct = F64(0))

\* C8: for an input with a well-formed row, after Clean
\* cleaned_count <= row_count, removed = row_count - cleaned_count >= 0 and
\* removed_pct is a number from 0 to 100.
C8_RemovedInRange ==
    (StatsDone /\ \E i \in 1..Len(data_dir.rows) : data_dir.rows[i].wellformed) =>
        /\ cleaned_count <= row_count
        /\ removed = row_count - cleaned_count
        /\ removed >= 0
        /\ IsFinite(removed_pct)
        /\ 0 <= removed_pct.num
        /\ removed_pct.num <= 100 * removed_pct.den

\* a well-formed row that Clean removed
C8_Witness ==
    /\ StatsDone
    /\ row_count >= 1
    /\ removed >= 1
    /\ removed_pct.num >= 1

\* d is the text of a calendar date
IsCalendarDate(d) ==
    /\ Len(d) = 3
    /\ d[1] >= 1
    /\ d[2] \in 1..12
    /\ d[3] >= 1
    /\ d[3] <= (CASE d[2] \in {1, 3, 5, 7, 8, 10, 12} -> 31
                  [] d[2] \in {4, 6, 9, 11} -> 30
                  [] OTHER -> IF d[1] % 4 = 0 /\ (d[1] % 100 # 0 \/ d[1] % 400 = 0)
                              THEN 29 ELSE 28)

AllFour(r) ==
    /\ r.product_id # NULL
    /\ r.quantity > 0
    /\ r.price > 0
    /\ IsCalendarDate(r.date)

\* C9: cleaned_data holds each row of raw_data that has a product_id, a
\* quantity > 0, a price > 0 and a date that is a calendar date, as often
\* as raw_data holds it, and no other row.
C9_CleanedExactly ==
    pc \in {"data_cleaned", "data_transformed", "data_aggregated"} =>
        \A r \in Range(raw_data) \cup Range(cleaned_data) :
            Count(cleaned_data, r) = IF AllFour(r) THEN Count(raw_data, r) ELSE 0

\* a row with price 0 and nothing else wrong is dropped, another row is kept
C9_Witness ==
    /\ pc = "data_cleaned"
    /\ Len(cleaned_data) = 1
    /\ \E i \in 1..Len(raw_data) :
        /\ raw_data[i].price = 0
        /\ raw_data[i].quantity > 0
        /\ raw_data[i].product_id # NULL
        /\ IsCalendarDate(raw_data[i].date)

RowsOf(p) == SelectSeq(transformed_data, LAMBDA r : r.product_id = p)

\* C10: aggregated_data has one row for each product_id of transformed_data
\* and no other row; the row holds the sum of quantity, the sum of
\* quantity * price and the mean of price over the product's rows; a row of
\* greater total_revenue comes before a row of smaller total_revenue.
C10_Aggregated ==
    pc = "data_aggregated" =>
        /\ \A p \in {r.product_id : r \in Range(transformed_data)} :
             Cardinality({i \in DOMAIN aggregated_data :
                            aggregated_data[i].product_id = p}) = 1
        /\ \A i \in DOMAIN aggregated_data :
             LET g == aggregated_data[i]
                 R == RowsOf(g.product_id)
             IN  /\ R # <<>>
                 /\ g.total_quantity = SumSeq([n \in 1..Len(R) |-> R[n].quantity])
                 /\ g.total_revenue =
                        SumSeq([n \in 1..Len(R) |-> R[n].quantity * R[n].price])
                 /\ g.avg_price.den > 0
                 /\ g.avg_price.num * Len(R) =
                        g.avg_price.den * SumSeq([n \in 1..Len(R) |-> R[n].price])
        /\ \A i \in DOMAIN aggregated_data, j \in DOMAIN aggregated_data :
             aggregated_data[i].total_revenue > aggregated_data[j].total_revenue
                => i < j

\* two products, the one of greater total_revenue read last and listed first
C10_Witness ==
    /\ pc = "data_aggregated"
    /\ Len(aggregated_data) = 2
    /\ aggregated_data[1].total_revenue > aggregated_data[2].total_revenue
    /\ aggregated_data[1].product_id = transformed_data[2].product_id

\* The message .context() gives the errors of a step.
StageContext(stage, step) ==
    CASE stage = "Load" -> "Failed to load CSV files"
      [] stage = "Clean" -> "Failed to clean data"
      [] stage = "Transform" -> "Failed to transform data"
      [] stage = "Aggregate" -> "Failed to aggregate data"
      [] stage = "Persist" /\ step = "mkdir" -> "Failed to create output directory"
      [] stage = "Persist" /\ step # "mkdir" -> "Failed to save results"
      [] OTHER -> "Failed to create DuckDB connection"

\* C11: when a stage of the pipeline failed, what main wrote to stderr shows the whole
\* error chain, the innermost cause included, and the description of the
\* step that failed.
C11_ErrorChainShown ==
    (exit_status = <<1>> /\ IsStageStep(Last(log))) =>
        /\ \A k \in 1..Len(err) : err[k] \in Range(stderr)
        /\ StageContext(Last(log).stage, Last(log).step) \in Range(stderr)

\* C12: after a run that succeeded the parent directory exists and the file
\* at output_path is the header and the rows of aggregated_data over this
\* run's input, whatever was at the path before.
C12_OutputReplaced ==
    exit_status = <<0>> =>
        /\ out_dir
        /\ out_file.header =
              <<"product_id", "total_quantity", "total_revenue", "avg_price">>
        /\ out_file.rows \in AggregatedData(Transformed(data_dir.rows))
        /\ out_file # out_before.file

\* a run that replaced the file of an earlier run by a file with a row
C12_Witness ==
    /\ exit_status = <<0>>
    /\ out_before.file = OldFile
    /\ Len(out_file.rows) >= 1

\* C13: two runs over the same input leave the same file at output_path.
C13_Idempotent ==
    pc = "ran_twice" => out_file = first_output

\* C14: the error of a failed stage step reaches main wrapped in the
\* description of that step, and the step was taken once.
C14_ErrorsWrapped ==
    (pc = "main_err" /\ IsStageStep(Last(log))) =>
        /\ Len(err) >= 2
        /\ Head(err) = StageContext(Last(log).stage, Last(log).step)
        /\ Count(log, Last(log)) = 1

\* The place of a stage step in the program order.
Pos(e) ==
    CHOOSE k \in 1..Len(StageRun) :
        StageRun[k].stage = e.stage /\ StageRun[k].step = e.step

ViewOf(stage) ==
    CASE stage = "Load" -> "raw_data"
      [] stage = "Clean" -> "cleaned_data"
      [] stage = "Transform" -> "transformed_data"
      [] stage = "Aggregate" -> "aggregated_data"

\* C15: the stage steps are taken in program order, each at most once; a view
\* is in the catalog exactly when its CREATE VIEW succeeded, which it did at
\* most once; and a view is in the catalog only with the view it reads.
C15_OneWay ==
    LET taken == SelectSeq(log, IsStageStep) IN
    /\ \A j \in 1..(Len(taken) - 1) : Pos(taken[j]) < Pos(taken[j + 1])
    /\ \A k \in 1..4 :
         /\ Count(log, Step(StageNames[k], "view", TRUE)) <= 1
         /\ ViewOf(StageNames[k]) \in catalog
              <=> Step(StageNames[k], "view", TRUE) \in Range(log)
    /\ \A k \in 2..4 :
         ViewOf(StageNames[k]) \in catalog => ViewOf(StageNames[k - 1]) \in catalog

\* all four views created, one after the other
C15_Witness ==
    /\ catalog = {"raw_data", "cleaned_data", "transformed_data", "aggregated_data"}
    /\ pc = "exited"

Columns == {"product_id", "quantity", "price", "date", "wellformed"}
Derived == {"revenue", "year", "month", "quarter"}

\* C16: transformed_data has as many rows as cleaned_data, and its i-th row
\* is the i-th row of cleaned_data with the columns revenue, year, month and
\* quarter added and no other column added or changed.
C16_TransformKeepsRows ==
    pc \in {"data_transformed", "data_aggregated"} =>
        /\ Len(transformed_data) = Len(cleaned_data)
        /\ \A i \in 1..Len(cleaned_data) :
             /\ DOMAIN transformed_data[i] = DOMAIN cleaned_data[i] \cup Derived
             /\ DOMAIN cleaned_data[i] \cap Derived = {}
             /\ \A c \in DOMAIN cleaned_data[i] :
                  transformed_data[i][c] = cleaned_data[i][c]

\* two rows of two products transformed, the revenue of the first not
\* its quantity
C16_Witness ==
    /\ pc = "data_transformed"
    /\ Len(transformed_data) = 2
    /\ transformed_data[1].product_id # transformed_data[2].product_id
    /\ transformed_data[1].revenue # transformed_data[1].quantity

QuarterOf(m) ==
    CASE m \in {1, 2, 3} -> 1
      [] m \in {4, 5, 6} -> 2
      [] m \in {7, 8, 9} -> 3
      [] m \in {10, 11, 12} -> 4

\* C17: in every row of transformed_data revenue = quantity * price, year
\* and month are those written in the row's date, and quarter is
\* ((month - 1) div 3) + 1, the quarter of the year the month lies in.
C17_DerivedFields ==
    pc \in {"data_transformed", "data_aggregated"} =>
        \A i \in 1..Len(transformed_data) :
            LET r == transformed_data[i] IN
            /\ r.revenue = r.quantity * r.price
            /\ r.year = r.date[1]
            /\ r.month = r.date[2]
            /\ r.month \in 1..12
            /\ r.quarter = ((r.month - 1) \div 3) + 1
            /\ r.quarter = QuarterOf(r.month)

\* the row of 2024-07-15: year 2024, month 7, quarter 3
C17_Witness ==
    /\ pc = "data_transformed"
    /\ Len(transformed_data) = 1
    /\ transformed_data[1].date = <<2024, 7, 15>>
    /\ transformed_data[1].year = 2024
    /\ transformed_data[1].month = 7
    /\ transformed_data[1].quarter = 3
    /\ transformed_data[1].revenue = 2

\* C18: the connection is opened at most once, and it is not open when
\* run_pipeline has returned to main or the process has exited.
C18_SessionReleased ==
    /\ Count(log, Step("Init", "open", TRUE)) + Count(log, Step("Init", "open", FALSE)) <= 1
    /\ conn = "open" => Step("Init", "open", TRUE) \in Range(log)
    /\ pc \in {"main_ok", "main_err", "exited"} => conn # "open"

\* a run that failed in Clean with the connection open, and closed it
C18_Witness ==
    /\ pc = "exited"
    /\ exit_status = <<1>>
    /\ Last(log) = Step("Clean", "view", FALSE)
    /\ conn = "closed"

\* C19: the parent directory and the file at output_path are as they were
\* before the run until Aggregate has succeeded: a run that fails in engine
\* init, Load, Clean, Transform or Aggregate leaves both untouched.
C19_NoOutputBeforePersist ==
    (out_dir # out_before.dir \/ out_file # out_before.file) =>
        /\ Step("Aggregate", "count", TRUE) \in Range(log)
        /\ Step("Persist", "mkdir", TRUE) \in Range(log)

\* a run that failed in Aggregate: no parent directory, no file
C19_Witness ==
    /\ pc = "exited"
    /\ Last(log) = Step("Aggregate", "count", FALSE)
    /\ ~out_before.dir
    /\ ~out_dir
    /\ out_file = NoFile

SummaryLine == "Pipeline Execution Summary"
SuccessLine == "Pipeline completed successfully"

\* C20: the summary is printed at most once; when it is printed, six samples
\* were taken before it and the success line is not yet printed; a run that
\* ends with status 0 printed it once, right before the success line; a run
\* that ends with another status never printed it.
C20_SummaryOnce ==
    /\ Count(stdout, SummaryLine) <= 1
    /\ Count(stdout, SummaryLine) = 1 =>
         /\ Len(SelectSeq(log, IsSample)) = 6
         /\ \A i \in 1..Len(stdout), j \in 1..Len(stdout) :
              (stdout[i] = SummaryLine /\ stdout[j] = SuccessLine) => i < j
    /\ exit_status = <<0>> =>
         /\ Count(stdout, SummaryLine) = 1
         /\ Last(stdout) = SuccessLine
         /\ stdout[Len(stdout) - 1] = SummaryLine
    /\ (pc = "exited" /\ exit_status # <<0>>) => Count(stdout, SummaryLine) = 0

\* a run that succeeded: the summary, then the success line
C20_Witness ==
    /\ exit_status = <<0>>
    /\ Count(stdout, SummaryLine) = 1
    /\ Count(stdout, SuccessLine) = 1
====
